---- MODULE Spec2Model ----
(***************************************************************************)
(* ExtendedAnnotationsReader of ts-json-schema-generator: getAnnotations   *)
(* and isNullable, as pure functions of a declaration node, of the base    *)
(* reader's result for that node and of the markdownDescription toggle.    *)
(*                                                                         *)
(* A text is a sequence of one-character strings.  An annotation record is *)
(* a function from field names to values; a result that may be undefined   *)
(* is [present, fields].                                                   *)
(***************************************************************************)
EXTENDS Integers, Sequences, FiniteSets, TLC

VARIABLES node, superAnnotations, markdownDescription, called, annotations, nullable

vars == <<node, superAnnotations, markdownDescription, called, annotations, nullable>>

(***************************************************************************)
(* Bounds of the explored inputs.                                          *)
(***************************************************************************)
MaxTags == 2
MaxTextLen == 4
MaxExampleTags == 3
MaxChildren == 2

(***************************************************************************)
(* String primitives of the host language.                                 *)
(***************************************************************************)
WhiteSpace == {" ", "\n", "\r", "\t"}

RECURSIVE Join(_, _)
\* Array.prototype.join: the parts, with sep between consecutive parts.
Join(parts, sep) ==
    IF parts = <<>> THEN <<>>
    ELSE IF Len(parts) = 1 THEN parts[1]
    ELSE parts[1] \o sep \o Join(Tail(parts), sep)

\* String.prototype.replace(/\r/g, "")
RemoveCR(s) == SelectSeq(s, LAMBDA c : c # "\r")

RECURSIVE TrimStart(_)
TrimStart(s) ==
    IF s # <<>> /\ s[1] \in WhiteSpace THEN TrimStart(Tail(s)) ELSE s

RECURSIVE TrimEnd(_)
TrimEnd(s) ==
    IF s # <<>> /\ s[Len(s)] \in WhiteSpace THEN TrimEnd(SubSeq(s, 1, Len(s) - 1)) ELSE s

\* String.prototype.trim
Trim(s) == TrimEnd(TrimStart(s))

\* comments.map((comment) => comment.text).join(" ").replace(/\r/g, "").trim()
CommentText(comments) == Trim(RemoveCR(Join(comments, <<" ">>)))

\* Variant of SoftBreakAt: the lookbehind is missing.
SoftBreakAt_NoLookbehind(s, i) ==
    /\ s[i] = "\n"
    /\ i < Len(s) /\ s[i + 1] \notin {"\n", "*", "-"}

\* One match test of /(?<=[^\n])\n(?=[^\n*-])/ at position i of s.
SoftBreakAt(s, i) ==
    /\ s[i] = "\n"
    /\ i > 1 /\ s[i - 1] # "\n"
    /\ i < Len(s) /\ s[i + 1] \notin {"\n", "*", "-"}

RECURSIVE ReplaceFrom(_, _)
\* The global replace, scanning s from position i on: a match becomes " ".
ReplaceFrom(s, i) ==
    IF i > Len(s) THEN <<>>
    ELSE <<IF SoftBreakAt(s, i) THEN " " ELSE s[i]>> \o ReplaceFrom(s, i + 1)

\* markdownDescription.replace(/(?<=[^\n])\n(?=[^\n*-])/g, " ").trim()
CollapseNewlines(md) == Trim(ReplaceFrom(md, 1))

(***************************************************************************)
(* Annotation records and object spread.                                   *)
(***************************************************************************)
NoFields == [f \in {} |-> <<>>]

Undefined == [present |-> FALSE, fields |-> NoFields]

Some(fields) == [present |-> TRUE, fields |-> fields]

\* Variant of Merge: a's value wins on a shared key.
Merge_FirstWins(a, b) ==
    [f \in DOMAIN a \cup DOMAIN b |-> IF f \in DOMAIN a THEN a[f] ELSE b[f]]

\* { ...a, ...b } of two records: b's value wins on a shared key.
Merge(a, b) ==
    [f \in DOMAIN a \cup DOMAIN b |-> IF f \in DOMAIN b THEN b[f] ELSE a[f]]

\* Spreading undefined contributes no key.
FieldsOf(r) == IF r.present THEN r.fields ELSE NoFields

(***************************************************************************)
(* Symbol resolution.                                                      *)
(***************************************************************************)
\* symbolAtNode(node): the node's symbol, or none.
symbolAtNode(n) == n.symbol

\* Variant of IsConstEnumFlags: any flag counts.
IsConstEnumFlags_AnyFlag(flags) == flags # {}

\* symbol.getFlags() == ts.SymbolFlags.ConstEnum : equality of the whole
\* flag word, not a test of the bit.
IsConstEnumFlags(flags) == flags = {"ConstEnum"}

\* (tag.text ?? []).map((part) => part.text).join("")
TagText(tag) == IF tag.hasText THEN Join(tag.text, <<>>) ELSE <<>>

(***************************************************************************)
(* Enum members: child.getText().split("= ").at(-1) and Number(val).       *)
(***************************************************************************)
RECURSIVE SplitFrom(_, _, _)
\* String.prototype.split("= ") of s from position i, cur being the segment
\* under construction.
SplitFrom(s, i, cur) ==
    IF i > Len(s) THEN <<cur>>
    ELSE IF i < Len(s) /\ s[i] = "=" /\ s[i + 1] = " "
         THEN <<cur>> \o SplitFrom(s, i + 2, <<>>)
         ELSE SplitFrom(s, i + 1, Append(cur, s[i]))

\* .split("= ").at(-1)
LastSegment(s) == LET segs == SplitFrom(s, 1, <<>>) IN segs[Len(segs)]

Digits == {"0", "1", "2", "3", "4", "5", "6", "7", "8", "9"}

DigitValue(c) ==
    CASE c = "0" -> 0 [] c = "1" -> 1 [] c = "2" -> 2 [] c = "3" -> 3 [] c = "4" -> 4
      [] c = "5" -> 5 [] c = "6" -> 6 [] c = "7" -> 7 [] c = "8" -> 8 [] c = "9" -> 9

RECURSIVE Decimal(_)
Decimal(s) ==
    IF s = <<>> THEN 0
    ELSE 10 * Decimal(SubSeq(s, 1, Len(s) - 1)) + DigitValue(s[Len(s)])

NaN == [nan |-> TRUE, val |-> 0]

\* Number(val) on texts of letters, digits, "=" and white space: white space
\* is trimmed, the empty text is 0, a run of digits is its decimal value, and
\* anything else is NaN.
Number(val) ==
    LET t == Trim(val)
    IN  IF \A i \in 1..Len(t) : t[i] \in Digits
        THEN [nan |-> FALSE, val |-> Decimal(t)]
        ELSE NaN

RECURSIVE MemberDescriptors(_)
\* The forEachChild callback over the children of a declaration, in order:
\* a child without symbol is skipped, any other pushes one descriptor.
MemberDescriptors(children) ==
    IF children = <<>> THEN <<>>
    ELSE LET child == children[1]
             symbol == symbolAtNode(child)
         IN  (IF ~symbol.present THEN <<>>
              ELSE <<[const |-> Number(LastSegment(child.text)),
                      description |-> CommentText(symbol.comments)]>>)
             \o MemberDescriptors(Tail(children))

\* symbol.getDeclarations()?.at(0)?.forEachChild(...)
EnumAnyOf(symbol) ==
    IF symbol.declarations = <<>> THEN <<>>
    ELSE MemberDescriptors(symbol.declarations[1])

(***************************************************************************)
(* The description group.                                                  *)
(***************************************************************************)
\* Variant of getDescriptionAnnotation: the toggle left out counts as on.
getDescriptionAnnotation_DefaultOn(n) ==
    LET symbol == symbolAtNode(n)
    IN  IF ~symbol.present THEN Undefined
        ELSE IF symbol.comments = <<>> THEN Undefined
        ELSE LET anyOf == IF IsConstEnumFlags(symbol.flags) THEN EnumAnyOf(symbol) ELSE <<>>
                 md == CommentText(symbol.comments)
                 description == CollapseNewlines(md)
                 data == IF markdownDescription # "false"
                         THEN ("description" :> description) @@ ("markdownDescription" :> md)
                         ELSE ("description" :> description)
             IN  IF Len(anyOf) > 0
                 THEN Some(Merge(data, ("anyOf" :> anyOf) @@ ("title" :> description)))
                 ELSE Some(data)

getDescriptionAnnotation(n) ==
    LET symbol == symbolAtNode(n)
    IN  IF ~symbol.present THEN Undefined
        ELSE IF symbol.comments = <<>> THEN Undefined
        ELSE LET anyOf == IF IsConstEnumFlags(symbol.flags) THEN EnumAnyOf(symbol) ELSE <<>>
                 md == CommentText(symbol.comments)
                 description == CollapseNewlines(md)
                 data == IF markdownDescription = "true"
                         THEN ("description" :> description) @@ ("markdownDescription" :> md)
                         ELSE ("description" :> description)
             IN  IF Len(anyOf) > 0
                 THEN Some(Merge(data, ("anyOf" :> anyOf) @@ ("title" :> description)))
                 ELSE Some(data)

(***************************************************************************)
(* The type-override group.                                                *)
(***************************************************************************)
\* jsDocTags.find((tag) => tag.name === name): the index of the first such
\* tag, 0 when there is none.
FindTag(tags, name) ==
    IF \E i \in 1..Len(tags) : tags[i].name = name
    THEN CHOOSE i \in 1..Len(tags) :
            /\ tags[i].name = name
            /\ \A j \in 1..(i - 1) : tags[j].name # name
    ELSE 0

NumberType == <<"n", "u", "m", "b", "e", "r">>

getTypeAnnotation(n) ==
    LET symbol == symbolAtNode(n)
    IN  IF ~symbol.present THEN Undefined
        ELSE IF IsConstEnumFlags(symbol.flags) THEN Some("type" :> NumberType)
        ELSE IF symbol.tags = <<>> THEN Undefined
        ELSE LET i == FindTag(symbol.tags, "asType")
             IN  IF i = 0 THEN Undefined
                 ELSE Some("type" :> TagText(symbol.tags[i]))

(***************************************************************************)
(* json5.parse on texts of white space, digits, letters, quotes, brackets, *)
(* braces, ":" and ",".  A parsed value is held as its canonical text:     *)
(* no white space, no trailing comma, keys and strings in double quotes.   *)
(***************************************************************************)
Letters == {"a", "b", "e", "f", "j", "l", "n", "o", "r", "s", "t", "u"}

ParseFail == [ok |-> FALSE, next |-> 0, val |-> <<>>]

ParseOk(next, val) == [ok |-> TRUE, next |-> next, val |-> val]

RECURSIVE SkipWhiteSpace(_, _)
\* The first position from i on that holds no white space.
SkipWhiteSpace(s, i) ==
    IF i <= Len(s) /\ s[i] \in WhiteSpace THEN SkipWhiteSpace(s, i + 1) ELSE i

RECURSIVE RunEnd(_, _, _)
\* The first position from i on whose character is not in set.
RunEnd(s, i, set) ==
    IF i <= Len(s) /\ s[i] \in set THEN RunEnd(s, i + 1, set) ELSE i

\* The literal word at position i of s.
ParseLiteral(s, i, word) ==
    IF i + Len(word) - 1 <= Len(s) /\ SubSeq(s, i, i + Len(word) - 1) = word
    THEN ParseOk(i + Len(word), word)
    ELSE ParseFail

\* A decimal integer at position i: no digit may follow a leading zero.
ParseNumber(s, i) ==
    LET j == RunEnd(s, i, Digits)
    IN  IF s[i] = "0" /\ j > i + 1 THEN ParseFail
        ELSE ParseOk(j, SubSeq(s, i, j - 1))

\* A quoted string at position i (s[i] is the opening quote): it runs to the
\* next such quote and may not hold a line break.
ParseString(s, i) ==
    LET j == RunEnd(s, i + 1, {c \in Letters \cup Digits \cup WhiteSpace
                                      \cup {"'", "\"", "[", "]", "{", "}", ":", ","} :
                                  c \notin {s[i], "\n", "\r"}})
    IN  IF j <= Len(s) /\ s[j] = s[i]
        THEN ParseOk(j + 1, <<"\"">> \o SubSeq(s, i + 1, j - 1) \o <<"\"">>)
        ELSE ParseFail

\* An object key at position i: an identifier or a quoted string.
ParseKey(s, i) ==
    IF i > Len(s) THEN ParseFail
    ELSE IF s[i] \in {"'", "\""} THEN ParseString(s, i)
    ELSE IF s[i] \in Letters
         THEN LET j == RunEnd(s, i, Letters \cup Digits)
              IN  ParseOk(j, <<"\"">> \o SubSeq(s, i, j - 1) \o <<"\"">>)
    ELSE ParseFail

RECURSIVE ParseValue(_, _)
RECURSIVE ParseElements(_, _, _)
RECURSIVE ParseMembers(_, _, _)

\* The value that starts at position i of s (white space already skipped).
ParseValue(s, i) ==
    IF i > Len(s) THEN ParseFail
    ELSE CASE s[i] = "n" -> ParseLiteral(s, i, <<"n", "u", "l", "l">>)
           [] s[i] = "t" -> ParseLiteral(s, i, <<"t", "r", "u", "e">>)
           [] s[i] = "f" -> ParseLiteral(s, i, <<"f", "a", "l", "s", "e">>)
           [] s[i] \in Digits -> ParseNumber(s, i)
           [] s[i] \in {"'", "\""} -> ParseString(s, i)
           [] s[i] = "[" -> ParseElements(s, i + 1, <<"[">>)
           [] s[i] = "{" -> ParseMembers(s, i + 1, <<"{">>)
           [] OTHER -> ParseFail

\* The rest of an array from position i, acc being its canonical text so far:
\* "]" closes it, also right after a comma.
ParseElements(s, i, acc) ==
    LET j == SkipWhiteSpace(s, i)
    IN  IF j > Len(s) THEN ParseFail
        ELSE IF s[j] = "]" THEN ParseOk(j + 1, Append(acc, "]"))
        ELSE LET v == ParseValue(s, j)
                 k == SkipWhiteSpace(s, v.next)
                 sofar == (IF Len(acc) > 1 THEN Append(acc, ",") ELSE acc) \o v.val
             IN  IF ~v.ok \/ k > Len(s) THEN ParseFail
                 ELSE IF s[k] = "," THEN ParseElements(s, k + 1, sofar)
                 ELSE IF s[k] = "]" THEN ParseOk(k + 1, Append(sofar, "]"))
                 ELSE ParseFail

\* The rest of an object from position i, likewise.
ParseMembers(s, i, acc) ==
    LET j == SkipWhiteSpace(s, i)
    IN  IF j > Len(s) THEN ParseFail
        ELSE IF s[j] = "}" THEN ParseOk(j + 1, Append(acc, "}"))
        ELSE LET key == ParseKey(s, j)
                 c == SkipWhiteSpace(s, key.next)
             IN  IF ~key.ok \/ c > Len(s) THEN ParseFail
                 ELSE IF s[c] # ":" THEN ParseFail
                 ELSE LET v == ParseValue(s, SkipWhiteSpace(s, c + 1))
                          k == SkipWhiteSpace(s, v.next)
                          sofar == (IF Len(acc) > 1 THEN Append(acc, ",") ELSE acc)
                                   \o key.val \o <<":">> \o v.val
                      IN  IF ~v.ok \/ k > Len(s) THEN ParseFail
                          ELSE IF s[k] = "," THEN ParseMembers(s, k + 1, sofar)
                          ELSE IF s[k] = "}" THEN ParseOk(k + 1, Append(sofar, "}"))
                          ELSE ParseFail

\* json5.parse(text): one value, white space around it, and nothing else;
\* ok is FALSE where json5.parse throws.
JSON5Parse(text) ==
    LET v == ParseValue(text, SkipWhiteSpace(text, 1))
    IN  IF v.ok /\ SkipWhiteSpace(text, v.next) > Len(text)
        THEN [ok |-> TRUE, val |-> v.val]
        ELSE [ok |-> FALSE, val |-> <<>>]

(***************************************************************************)
(* The example group.                                                      *)
(***************************************************************************)
RECURSIVE ParseExamples_StopAtFailure(_)
\* Variant of ParseExamples: the first text that throws ends the loop.
ParseExamples_StopAtFailure(tags) ==
    IF tags = <<>> THEN <<>>
    ELSE LET parsed == JSON5Parse(TagText(tags[1]))
         IN  IF parsed.ok THEN <<parsed.val>> \o ParseExamples_StopAtFailure(Tail(tags))
             ELSE <<>>

RECURSIVE ParseExamples(_)
\* The loop over the example tags: a text that parses is pushed, one that
\* throws is caught and skipped.
ParseExamples(tags) ==
    IF tags = <<>> THEN <<>>
    ELSE LET parsed == JSON5Parse(TagText(tags[1]))
         IN  (IF parsed.ok THEN <<parsed.val>> ELSE <<>>) \o ParseExamples(Tail(tags))

getExampleAnnotation(n) ==
    LET symbol == symbolAtNode(n)
    IN  IF ~symbol.present THEN Undefined
        ELSE IF symbol.tags = <<>> THEN Undefined
        ELSE LET examples == ParseExamples(SelectSeq(symbol.tags, LAMBDA tag : tag.name = "example"))
             IN  IF Len(examples) = 0 THEN Undefined
                 ELSE Some("examples" :> examples)

(***************************************************************************)
(* getAnnotations.                                                         *)
(***************************************************************************)
\* Variant of getAnnotations: the merged record is returned even when empty.
getAnnotations_EmptyRecord(n) ==
    Some(Merge(Merge(Merge(FieldsOf(getDescriptionAnnotation(n)),
                           FieldsOf(getTypeAnnotation(n))),
                     FieldsOf(getExampleAnnotation(n))),
               FieldsOf(superAnnotations)))

\* Variant of getAnnotations: the base reader's result is spread first.
getAnnotations_BaseFirst(n) ==
    LET merged == Merge(Merge(Merge(FieldsOf(superAnnotations),
                                    FieldsOf(getDescriptionAnnotation(n))),
                              FieldsOf(getTypeAnnotation(n))),
                        FieldsOf(getExampleAnnotation(n)))
    IN  IF DOMAIN merged # {} THEN Some(merged) ELSE Undefined

getAnnotations(n) ==
    LET merged == Merge(Merge(Merge(FieldsOf(getDescriptionAnnotation(n)),
                                    FieldsOf(getTypeAnnotation(n))),
                              FieldsOf(getExampleAnnotation(n))),
                        FieldsOf(superAnnotations))
    IN  IF DOMAIN merged # {} THEN Some(merged) ELSE Undefined

(***************************************************************************)
(* isNullable.                                                             *)
(***************************************************************************)
\* Variant of isNullable: only the first tag is looked at.
isNullable_FirstTagOnly(n) ==
    LET symbol == symbolAtNode(n)
    IN  IF ~symbol.present THEN FALSE
        ELSE IF symbol.tags = <<>> THEN FALSE
        ELSE symbol.tags[1].name = "nullable"

isNullable(n) ==
    LET symbol == symbolAtNode(n)
    IN  IF ~symbol.present THEN FALSE
        ELSE IF symbol.tags = <<>> THEN FALSE
        ELSE FindTag(symbol.tags, "nullable") # 0

(***************************************************************************)
(* The nodes, base-reader results and toggles the reader is run on.        *)
(***************************************************************************)
SeqsUpTo(S, n) == UNION {[1..k -> S] : k \in 0..n}

NoSymbol ==
    [present |-> FALSE, comments |-> <<>>, tags |-> <<>>, flags |-> {}, declarations |-> <<>>]

Symbol(comments, tags, flags, declarations) ==
    [present |-> TRUE, comments |-> comments, tags |-> tags, flags |-> flags,
     declarations |-> declarations]

Node(symbol) == [symbol |-> symbol]

Tag(name, text) == [name |-> name, hasText |-> TRUE, text |-> text]

BareTag(name) == [name |-> name, hasText |-> FALSE, text |-> <<>>]

Member(text, comments) == [symbol |-> [present |-> TRUE, comments |-> comments], text |-> text]

\* A child that carries no symbol, such as the identifier naming the enum.
PlainChild(text) == [symbol |-> [present |-> FALSE, comments |-> <<>>], text |-> text]

\* The construction-time toggle: an optional boolean.
Toggles == {"true", "false", "undefined"}

SampleComments ==
    { <<>>,
      << <<"a", "\n", "b">> >>,
      << <<" ", "a", "\r">>, <<"\n", "\n", "b", "\n", "c">> >> }

SampleTags ==
    { BareTag("nullable"), BareTag("Nullable"), Tag("nullables", << <<"x">> >>),
      Tag("asType", << <<"A">>, <<"B">> >>), Tag("asType", << <<"C">> >>),
      Tag("example", << <<"1">> >>), Tag("example", << <<"n", "o">> >>) }

MemberA == Member(<<"A", " ", "=", " ", "1">>, << <<"f", "i", "r", "s", "t">> >>)

MemberB == Member(<<"B", " ", "=", " ", "2">>, << <<"s", "e", "c">>, <<"o", "n", "d", "\r">> >>)

EnumName == PlainChild(<<"E">>)

\* Declaration kinds: the flag word of the symbol with its declarations.
SampleKinds ==
    { [flags |-> {}, declarations |-> <<>>],
      [flags |-> {"Property"}, declarations |-> << <<>> >>],
      [flags |-> {"ConstEnum"}, declarations |-> << <<EnumName, MemberA, MemberB>> >>],
      [flags |-> {"ConstEnum"}, declarations |-> << <<EnumName>> >>],
      [flags |-> {"ConstEnum", "NamespaceModule"},
       declarations |-> << <<EnumName, MemberA, MemberB>> >>] }

BaseText == <<"b", "a", "s", "e">>

\* Results of the base reader's getAnnotations(node).
BaseResults ==
    { Undefined,
      Some(NoFields),
      Some("description" :> BaseText),
      Some("type" :> BaseText),
      Some(("examples" :> <<BaseText>>) @@ ("title" :> BaseText)) }

Nodes ==
    {Node(NoSymbol)} \cup
    {Node(Symbol(c, t, k.flags, k.declarations)) :
        c \in SampleComments, t \in SeqsUpTo(SampleTags, MaxTags), k \in SampleKinds}

(***************************************************************************)
(* The state machine: a reader constructed with a toggle, a node with the  *)
(* base reader's result for it, and the two public methods called on it.   *)
(***************************************************************************)
InitWith(nodes, bases, toggles) ==
    /\ node \in nodes
    /\ superAnnotations \in bases
    /\ markdownDescription \in toggles
    /\ called = {}
    /\ annotations = Undefined
    /\ nullable = FALSE

Init == InitWith(Nodes, BaseResults, Toggles)

GetAnnotations ==
    /\ annotations' = getAnnotations(node)
    /\ called' = called \cup {"getAnnotations"}
    /\ UNCHANGED <<node, superAnnotations, markdownDescription, nullable>>

IsNullable ==
    /\ nullable' = isNullable(node)
    /\ called' = called \cup {"isNullable"}
    /\ UNCHANGED <<node, superAnnotations, markdownDescription, annotations>>

Next == GetAnnotations \/ IsNullable

Spec == Init /\ [][Next]_vars

(***************************************************************************)
(* Documentation comments in full: every text over CommentChars of at most *)
(* MaxTextLen characters, as one fragment or cut in two.                   *)
(***************************************************************************)
CommentChars == {"a", " ", "\n", "\r", "-", "*", "#"}

\* The text s as one fragment (i beyond its end) or cut in two behind position i.
Cut(s, i) ==
    IF i > Len(s) THEN <<s>> ELSE <<SubSeq(s, 1, i), SubSeq(s, i + 1, Len(s))>>

TextComments(maxLen) ==
    {<<>>} \cup
    { Cut(p[1], p[2]) :
        p \in {q \in SeqsUpTo(CommentChars, maxLen) \X (0..(maxLen + 1)) : q[2] <= Len(q[1]) + 1} }

TextNodes(maxLen) == {Node(Symbol(c, <<>>, {}, <<>>)) : c \in TextComments(maxLen)}

InitText == InitWith(TextNodes(MaxTextLen), {Undefined}, {"true", "undefined"})

SpecText == InitText /\ [][Next]_vars

(***************************************************************************)
(* Example tags in full: every sequence of at most MaxExampleTags tags.    *)
(***************************************************************************)
ExampleTags ==
    { Tag("example", << <<"n", "u">>, <<"l", "l">> >>),
      Tag("example", << <<" ", "[", "1", ",", " ">>, <<"2", ",", "]">> >>),
      Tag("example", << <<"{", "\"", "a", "\"", ":", " ", "1", "}">> >>),
      Tag("example", << <<"n", "o", "t", " ", "j", "s", "o", "n">> >>),
      Tag("example", << <<"[", "1">> >>),
      BareTag("example"),
      Tag("asType", << <<"1">> >>) }

ExampleNodes ==
    {Node(Symbol(c, t, {}, <<>>)) :
        c \in {<<>>, << <<"a">> >>}, t \in SeqsUpTo(ExampleTags, MaxExampleTags)}

InitExample == InitWith(ExampleNodes, {Undefined}, {"undefined"})

SpecExample == InitExample /\ [][Next]_vars

(***************************************************************************)
(* Enum declarations in full: every sequence of at most MaxChildren        *)
(* children of the first declaration.                                      *)
(***************************************************************************)
SampleChildren ==
    { EnumName, MemberA, MemberB,
      Member(<<"C">>, <<>>),
      Member(<<"D", " ", "=", "3">>, << <<"d">> >>),
      Member(<<"F", " ", "=", " ">>, << <<" ", "f", " ">> >>),
      Member(<<"G", " ", "=", " ", "1", "=", " ", "1", "0">>, << <<"g", "\n", "h">> >>) }

EnumNodes ==
    {Node(Symbol(c, <<>>, f, <<children, <<MemberB>>>>)) :
        c \in {<<>>, << <<"E", "\n", "x">> >>},
        f \in {{"ConstEnum"}, {"ConstEnum", "NamespaceModule"}, {"RegularEnum"}},
        children \in SeqsUpTo(SampleChildren, MaxChildren)}

InitEnum == InitWith(EnumNodes, {Undefined}, {"true", "false"})

SpecEnum == InitEnum /\ [][Next]_vars

(***************************************************************************)
(* Properties.  The reference definitions below restate what the           *)
(* documentation says of a result, independently of the operators above.   *)
(***************************************************************************)
Returned == "getAnnotations" \in called

\* The four groups of getAnnotations, in the documented order.
Groups ==
    << FieldsOf(getDescriptionAnnotation(node)), FieldsOf(getTypeAnnotation(node)),
       FieldsOf(getExampleAnnotation(node)), FieldsOf(superAnnotations) >>

Base == FieldsOf(superAnnotations)

HasTagNamed(name) ==
    \E i \in 1..Len(node.symbol.tags) : node.symbol.tags[i].name = name

\* C1: getAnnotations returns undefined exactly when none of the four groups
\* contributes a field, and a record it returns has at least one field.
C1_AbsentIffNoGroupContributes ==
    Returned =>
        /\ ~annotations.present <=> (\A i \in 1..4 : DOMAIN Groups[i] = {})
        /\ annotations.present => DOMAIN annotations.fields # {}

\* A resolved symbol without comment or tag whose base result is an empty
\* record: nothing contributes, and the call returned undefined.
C1_Witness ==
    /\ Returned
    /\ node.symbol.present
    /\ superAnnotations = Some(NoFields)
    /\ annotations = Undefined

\* C2: the result holds, for every field some group defines, the value of the
\* last group defining it in the order description, type, example, base, and
\* it holds no other field.
C2_LastGroupWins ==
    Returned =>
        /\ DOMAIN annotations.fields = UNION {DOMAIN Groups[i] : i \in 1..4}
        /\ \A i \in 1..4 : \A f \in DOMAIN Groups[i] :
              (\A j \in (i + 1)..4 : f \notin DOMAIN Groups[j])
                  => annotations.fields[f] = Groups[i][f]

\* Description and base both define description, with different values, next
\* to a field only the type group defines.
C2_Witness ==
    /\ Returned
    /\ "description" \in DOMAIN Groups[1] \cap DOMAIN Base
    /\ Groups[1]["description"] # Base["description"]
    /\ annotations.fields["description"] = Base["description"]
    /\ "type" \in DOMAIN annotations.fields

\* C10, as claimed: a field that a derived group and the base reader both
\* define is returned with the derived group's value.
C10_BaseLowestPrecedence ==
    Returned =>
        \A i \in 1..3 : \A f \in DOMAIN Groups[i] \cap DOMAIN Base :
            annotations.fields[f] = Groups[i][f]

\* C10, amended: the base reader has the highest precedence.  Every field it
\* supplies is returned with its value, and a derived group's value is
\* returned only for a field the base reader does not supply.
C10_BaseHighestPrecedence ==
    Returned =>
        /\ \A f \in DOMAIN Base : annotations.fields[f] = Base[f]
        /\ \A i \in 1..3 : \A f \in DOMAIN Groups[i] :
              annotations.fields[f] = Groups[i][f]
                  => (f \notin DOMAIN Base \/ Base[f] = Groups[i][f])

\* The type group and the base reader both define type, and the base reader's
\* value is the one returned.
C10_Witness ==
    /\ Returned
    /\ "type" \in DOMAIN Groups[2] \cap DOMAIN Base
    /\ Groups[2]["type"] # Base["type"]
    /\ annotations.fields["type"] = Base["type"]

\* C7: isNullable is true exactly when the symbol resolves and one of its
\* tags is named "nullable", whatever else the node carries.
C7_NullableIffTag ==
    "isNullable" \in called =>
        (nullable <=> (node.symbol.present /\ HasTagNamed("nullable")))

\* The nullable tag stands second, behind a tag of another name.
C7_Witness ==
    /\ "isNullable" \in called
    /\ nullable
    /\ Len(node.symbol.tags) = 2
    /\ node.symbol.tags[1].name = "Nullable"
    /\ node.symbol.tags[2].name = "nullable"

\* The body of the first tag named asType.
FirstAsTypeBody ==
    LET tags == node.symbol.tags
        i == CHOOSE k \in 1..Len(tags) :
                tags[k].name = "asType" /\ \A j \in 1..(k - 1) : tags[j].name # "asType"
    IN  IF tags[i].hasText THEN Join(tags[i].text, <<>>) ELSE <<>>

\* C4: with the base reader silent on type, the returned type is "number" for
\* every symbol that has the constant-enumeration flag set, whatever its other
\* flags and tags; else the body of the first asType tag; else there is none.
C4_TypeOverride ==
    (Returned /\ "type" \notin DOMAIN Base) =>
        IF ~node.symbol.present THEN "type" \notin DOMAIN annotations.fields
        ELSE IF "ConstEnum" \in node.symbol.flags
             THEN /\ "type" \in DOMAIN annotations.fields
                  /\ annotations.fields["type"] = <<"n", "u", "m", "b", "e", "r">>
        ELSE IF HasTagNamed("asType")
             THEN /\ "type" \in DOMAIN annotations.fields
                  /\ annotations.fields["type"] = FirstAsTypeBody
        ELSE "type" \notin DOMAIN annotations.fields

\* A resolved symbol with a documentation comment, no tag, and a base reader
\* that contributes nothing.
CommentOnly ==
    /\ node.symbol.present
    /\ node.symbol.comments # <<>>
    /\ node.symbol.tags = <<>>
    /\ DOMAIN Base = {}

DescriptionFields ==
    IF markdownDescription = "true" THEN {"description", "markdownDescription"}
    ELSE {"description"}

\* C3, as claimed: such a node yields exactly description (and
\* markdownDescription when the toggle is on), whatever its flags.
C3_CommentOnlyAnyFlags ==
    (Returned /\ CommentOnly) =>
        /\ annotations.present
        /\ DOMAIN annotations.fields = DescriptionFields

\* C3, amended: it does so whenever the symbol does not carry the
\* constant-enumeration flag.
C3_CommentOnlyNotEnum ==
    (Returned /\ CommentOnly /\ "ConstEnum" \notin node.symbol.flags) =>
        /\ annotations.present
        /\ DOMAIN annotations.fields = DescriptionFields

\* A commented property without tags, read with the toggle on.
C3_Witness ==
    /\ Returned
    /\ CommentOnly
    /\ node.symbol.flags = {"Property"}
    /\ markdownDescription = "true"
    /\ DOMAIN annotations.fields = {"description", "markdownDescription"}

RECURSIVE ExpectedJoined(_)
\* Reference: the fragments in order, a single space between neighbours.
ExpectedJoined(parts) ==
    IF Len(parts) = 0 THEN <<>>
    ELSE IF Len(parts) = 1 THEN parts[1]
    ELSE ExpectedJoined(SubSeq(parts, 1, Len(parts) - 1)) \o <<" ">> \o parts[Len(parts)]

\* Reference: s without the characters of drop, the others in order.
ExpectedWithout(s, drop) ==
    LET kept == {i \in 1..Len(s) : s[i] \notin drop}
    IN  [k \in 1..Cardinality(kept) |->
            s[CHOOSE i \in kept : Cardinality({j \in kept : j < i}) = k - 1]]

\* Reference: s from its first to its last character that is not white space.
ExpectedTrimmed(s) ==
    LET solid == {i \in 1..Len(s) : s[i] \notin {" ", "\n", "\r", "\t"}}
    IN  IF solid = {} THEN <<>>
        ELSE SubSeq(s, CHOOSE i \in solid : \A j \in solid : i <= j,
                       CHOOSE i \in solid : \A j \in solid : j <= i)

\* Reference: comment fragments joined with single spaces, carriage returns
\* removed, trimmed.
ExpectedText(comments) == ExpectedTrimmed(ExpectedWithout(ExpectedJoined(comments), {"\r"}))

\* Reference: text with each newline that has no newline next to it and is
\* not directly followed by one of markers replaced by a space.
ExpectedCollapsed(text, markers) ==
    [i \in 1..Len(text) |->
        IF /\ text[i] = "\n"
           /\ ~(i > 1 /\ text[i - 1] = "\n")
           /\ ~(i < Len(text) /\ text[i + 1] = "\n")
           /\ ~(i < Len(text) /\ text[i + 1] \in markers)
        THEN " "
        ELSE text[i]]

\* The markers in front of which the reader keeps a newline.
ListMarkers == {"*", "-"}

\* C9: with the base reader silent on both fields, markdownDescription is
\* returned exactly when the toggle is on and a description is returned; it
\* is the joined, carriage-return-free, trimmed comment with every newline
\* kept, and description is its newline-collapse.
C9_MarkdownGating ==
    (Returned /\ DOMAIN Base \cap {"description", "markdownDescription"} = {}) =>
        LET a == annotations.fields
        IN  /\ "markdownDescription" \in DOMAIN a
                <=> (markdownDescription = "true" /\ "description" \in DOMAIN a)
            /\ "markdownDescription" \in DOMAIN a =>
                  /\ a["markdownDescription"] = ExpectedText(node.symbol.comments)
                  /\ a["description"] = ExpectedCollapsed(a["markdownDescription"], ListMarkers)

\* An enum read with the toggle on: markdownDescription keeps the newline
\* that description lost, next to anyOf and title.
C9_Witness ==
    /\ Returned
    /\ markdownDescription = "true"
    /\ {"markdownDescription", "anyOf", "title"} \subseteq DOMAIN annotations.fields
    /\ annotations.fields["markdownDescription"] = <<"a", "\n", "b">>
    /\ annotations.fields["description"] = <<"a", " ", "b">>

\* C8, as claimed: description is the joined, carriage-return-free, trimmed
\* comment in which a newline is kept when a newline stands next to it or a
\* list marker or a heading marker follows it, and is a space otherwise.
C8_CollapseKeepsHeadings ==
    (Returned /\ node.symbol.present /\ node.symbol.comments # <<>>) =>
        /\ "description" \in DOMAIN annotations.fields
        /\ annotations.fields["description"] =
              ExpectedCollapsed(ExpectedText(node.symbol.comments), ListMarkers \cup {"#"})

\* C8, amended: the newline is kept when a newline stands next to it or "*"
\* or "-" follows it; before any other character, "#" included, it becomes a
\* space.
C8_CollapseKeepsListItems ==
    (Returned /\ node.symbol.present /\ node.symbol.comments # <<>>) =>
        /\ "description" \in DOMAIN annotations.fields
        /\ annotations.fields["description"] =
              ExpectedCollapsed(ExpectedText(node.symbol.comments), ListMarkers)

\* Two fragments whose text holds a soft break and a break before a list
\* marker: the first became a space, the second stayed.
C8_Witness ==
    /\ Returned
    /\ node.symbol.comments = << <<"a", "\n">>, <<"\n", "-">> >>
    /\ annotations.fields["description"] = <<"a", " ", " ", "\n", "-">>

\* The tags named example whose body parses, by position.
ParsingExamples ==
    {i \in 1..Len(node.symbol.tags) :
        /\ node.symbol.tags[i].name = "example"
        /\ JSON5Parse(TagText(node.symbol.tags[i])).ok}

\* Reference: the parsed values of those tags, in tag order.
ExpectedExamples ==
    [k \in 1..Cardinality(ParsingExamples) |->
        LET i == CHOOSE i \in ParsingExamples :
                    Cardinality({j \in ParsingExamples : j < i}) = k - 1
        IN  JSON5Parse(TagText(node.symbol.tags[i])).val]

\* C6: with the base reader silent, examples is the sequence of the parsed
\* values of the example tags that parse, in tag order; it is absent when
\* none parses; and the other fields are those of the description and type
\* groups, whatever the example tags hold.
C6_ExamplesAreTheParsedOnes ==
    (Returned /\ node.symbol.present /\ DOMAIN Base = {}) =>
        LET a == annotations.fields
        IN  /\ "examples" \in DOMAIN a <=> ParsingExamples # {}
            /\ "examples" \in DOMAIN a => a["examples"] = ExpectedExamples
            /\ DOMAIN a \ {"examples"} = DOMAIN Groups[1] \cup DOMAIN Groups[2]
            /\ \A i \in 1..2 : \A f \in DOMAIN Groups[i] : a[f] = Groups[i][f]

\* A body that does not parse stands between one that parses to null and one
\* that parses to an array: the two values are returned, in that order.
C6_Witness ==
    /\ Returned
    /\ Len(node.symbol.tags) = 3
    /\ ParsingExamples = {1, 3}
    /\ annotations.fields["examples"] = << <<"n", "u", "l", "l">>, <<"[", "1", ",", "2", "]">> >>

\* Reference: text behind its last "= ", all of it when it holds none.
ExpectedAfterLastSeparator(text) ==
    LET seps == {i \in 1..(Len(text) - 1) : text[i] = "=" /\ text[i + 1] = " "}
    IN  IF seps = {} THEN text
        ELSE SubSeq(text, (CHOOSE i \in seps : \A j \in seps : j <= i) + 2, Len(text))

\* Reference: one descriptor per child that resolves, in child order.
ExpectedDescriptors(children) ==
    LET resolving == {i \in 1..Len(children) : children[i].symbol.present}
    IN  [k \in 1..Cardinality(resolving) |->
            LET i == CHOOSE i \in resolving : Cardinality({j \in resolving : j < i}) = k - 1
            IN  [const |-> Number(ExpectedAfterLastSeparator(children[i].text)),
                 description |-> ExpectedText(children[i].symbol.comments)]]

\* What the enum case promises of a returned record.
EnumCase ==
    LET a == annotations.fields
        expected == ExpectedDescriptors(node.symbol.declarations[1])
    IN  IF node.symbol.comments # <<>> /\ Len(expected) > 0
        THEN /\ {"anyOf", "title", "description"} \subseteq DOMAIN a
             /\ a["anyOf"] = expected
             /\ a["title"] = a["description"]
        ELSE /\ "anyOf" \notin DOMAIN a
             /\ "title" \notin DOMAIN a

\* C5: for every symbol that has the constant-enumeration flag set, anyOf
\* holds one descriptor per resolving child of the first declaration, title
\* goes with anyOf and equals description, and both are absent when the enum
\* has no comment or no child resolves.
C5_EnumMembers ==
    (Returned /\ "ConstEnum" \in node.symbol.flags) => EnumCase

\* The same, for the symbols whose flag word is the constant-enumeration flag
\* alone.
EnumMembersOfExactFlagWord ==
    (Returned /\ node.symbol.flags = {"ConstEnum"}) => EnumCase

====
